---- MODULE Spec2Model ----
(***************************************************************************)
(* Model of the Raid-Helper participant lister:                            *)
(*   fetch_raid_participants.py  (command-line script)                     *)
(*   main.py                     (Discord bot, /raid-list command)         *)
(*                                                                         *)
(* A Python str is a sequence of character codes, so that str.lower() is   *)
(* a computation.  A dict is a function whose DOMAIN is the set of keys    *)
(* that are present, so that dict.get(key, default) is a computation.      *)
(* An optional argument is <<>> (None) or <<v>> (the value v).             *)
(***************************************************************************)
EXTENDS Integers, Sequences, FiniteSets, TLC

VARIABLES
    \* ---- the two scripts' list processing ----
    signups,            \* the list read from data["signUps"]
    call,               \* which function ran: "none", "main", "print_rows", "format", "collect"
    argv_status,        \* main(): the raw -s/--status words, <<>> when the option is absent
    wanted,             \* print_rows_in_signup_order's `wanted` argument
    shuffle,            \* print_rows_in_signup_order's `shuffle` argument
    order,              \* the local list `signups` after sorted()/shuffle(), as input indices
    stdout,             \* the rows printed, each <<first column, second column>>
    formatted,          \* the rows of the string format_participants returns
    cats,               \* the dict collect_categories returns
    \* ---- the bot's /raid-list handler ----
    clock,              \* time.time()
    last_request_time,  \* bot.last_request_time
    pc,                 \* per invocation: where the coroutine is suspended
    user_id,            \* per invocation: interaction.user.id
    url_ok,             \* per invocation: RAID_HELPER_DOMAIN in url.lower()
    current_time,       \* per invocation: the local current_time
    followups,          \* per invocation: the messages given to interaction.followup.send
    fetches,            \* per invocation: number of calls of fetch_json
    escaped             \* per invocation: an exception left raid_list

listVars == <<signups, call, argv_status, wanted, shuffle, order, stdout, formatted, cats>>
botVars  == <<clock, last_request_time, pc, user_id, url_ok, current_time,
              followups, fetches, escaped>>
vars     == <<listVars, botVars>>

----------------------------------------------------------------------------
(* Bounds *)

MaxLen == 3             \* longest signUps list
NumInvocations == 2     \* /raid-list invocations in one run
MaxPeriods == 2         \* the clock runs up to this many rate-limit intervals

Users == {1, 2}
Invocations == 1..NumInvocations

----------------------------------------------------------------------------
(* Strings *)

s_empty   == <<>>
s_a       == <<97>>
s_b       == <<98>>
s_Tank    == <<84, 97, 110, 107>>
s_tank    == <<116, 97, 110, 107>>
s_TANK    == <<84, 65, 78, 75>>
s_heal    == <<104, 101, 97, 108>>
s_Unknown == <<85, 110, 107, 110, 111, 119, 110>>
s_unknown == <<117, 110, 107, 110, 111, 119, 110>>

\* str.lower(), on ASCII
lower(s) == [i \in DOMAIN s |-> IF s[i] \in 65..90 THEN s[i] + 32 ELSE s[i]]

\* dict.get(key, default)
get(e, key, default) == IF key \in DOMAIN e THEN e[key] ELSE default

\* a dict with the key k when the optional value o is present
Field(k, o) == [f \in (IF o = <<>> THEN {} ELSE {k}) |-> o[1]]

\* a signup record; every field is optional
SignupRecord(n, c, p, t) ==
    Field("name", n) @@ Field("className", c) @@ Field("position", p) @@ Field("entryTime", t)

\* all lists of at most n elements of S
ListsUpTo(S, n) == UNION {[1..k -> S] : k \in 0..n}

----------------------------------------------------------------------------
(* sorted(): a stable sort by a tuple key *)

MAX_POSITION_FALLBACK == 1000000000
POSITION_FALLBACK_CLI == 1000000000
ENTRY_TIME_DEFAULT == 0

\* Python's tuple comparison, a < b, on pairs
TupleLess(a, b) == a[1] < b[1] \/ (a[1] = b[1] /\ a[2] < b[2])

\* put index i behind every index already placed whose key is not greater
InsertByKey(ord, i, keys) ==
    LET p == Cardinality({j \in DOMAIN ord : ~TupleLess(keys[i], keys[ord[j]])})
    IN  SubSeq(ord, 1, p) \o <<i>> \o SubSeq(ord, p + 1, Len(ord))

RECURSIVE SortPrefix(_, _)
SortPrefix(keys, n) ==
    IF n = 0 THEN <<>> ELSE InsertByKey(SortPrefix(keys, n - 1), n, keys)

\* sorted(list, key=...): the input indices in sorted order; equal keys keep input order
sorted(keys) == SortPrefix(keys, Len(keys))

----------------------------------------------------------------------------
(* fetch_raid_participants.py *)

\* a faulty variant: the option keeps the words as typed
parse_args_status_as_typed(raw) == raw

\* parse_args: -s/--status has nargs="+" and type=str.lower; None when absent
parse_args_status(raw) ==
    IF raw = <<>> THEN <<>> ELSE <<[i \in DOMAIN raw[1] |-> lower(raw[1][i])]>>

\* a faulty variant: the key forgets entryTime
SignupKeyNoEntryTime(e) == <<get(e, "position", POSITION_FALLBACK_CLI), ENTRY_TIME_DEFAULT>>

\* the sort key of print_rows_in_signup_order
SignupKey(e) == <<get(e, "position", POSITION_FALLBACK_CLI), get(e, "entryTime", ENTRY_TIME_DEFAULT)>>

\* a faulty variant: draws with replacement
random_choices(list) ==
    {[i \in DOMAIN list |-> list[p[i]]] : p \in [DOMAIN list -> DOMAIN list]}

\* random.shuffle(list): every rearrangement the generator can produce
random_shuffle(list) ==
    {[i \in DOMAIN list |-> list[p[i]]] : p \in Permutations(DOMAIN list)}

\* the list `signups` after line 63 (and line 65 when shuffle), as input indices
SignupOrders(s, sh) ==
    LET ord == sorted([i \in DOMAIN s |-> SignupKey(s[i])])
    IN  IF sh THEN random_shuffle(ord) ELSE {ord}

\* `wanted and status not in wanted`
Skipped(w, status) ==
    /\ w # <<>>
    /\ w[1] # <<>>
    /\ \A k \in DOMAIN w[1] : w[1][k] # status

\* a faulty variant: `break` in place of `continue`
PrintLoopBreak(s, ord, w) ==
    LET status(i) == lower(get(s[i], "className", s_empty))
        stops     == {k \in DOMAIN ord : Skipped(w, status(ord[k]))}
        n         == IF stops = {} THEN Len(ord)
                     ELSE (CHOOSE k \in stops : \A j \in stops : k <= j) - 1
    IN  [k \in 1..n |-> <<get(s[ord[k]], "name", s_empty), status(ord[k])>>]

\* the for loop of print_rows_in_signup_order over the list ord: the rows printed
PrintLoop(s, ord, w) ==
    LET status(i) == lower(get(s[i], "className", s_empty))
        Keep(i)   == ~Skipped(w, status(i))
        kept      == SelectSeq(ord, Keep)
    IN  [k \in DOMAIN kept |-> <<get(s[kept[k]], "name", s_empty), status(kept[k])>>]

\* a faulty variant: the bucket is assigned, not appended to
AddToCategoryOverwrite(c, e) ==
    LET status == lower(get(e, "className", s_empty))
        name   == get(e, "name", s_empty)
    IN  IF status \in DOMAIN c
        THEN [c EXCEPT ![status] = <<name>>]
        ELSE (status :> <<name>>) @@ c

\* collect_categories: the loop body, on the dict built so far
AddToCategory(c, e) ==
    LET status == lower(get(e, "className", s_empty))
        name   == get(e, "name", s_empty)
    IN  IF status \in DOMAIN c
        THEN [c EXCEPT ![status] = Append(@, name)]
        ELSE (status :> <<name>>) @@ c

RECURSIVE CollectPrefix(_, _)
CollectPrefix(s, n) ==
    IF n = 0 THEN <<>> ELSE AddToCategory(CollectPrefix(s, n - 1), s[n])

collect_categories(s) == CollectPrefix(s, Len(s))

\* Python's str comparison a < b
StrLess(a, b) ==
    \E k \in 1..(Len(a) + 1) :
        /\ \A j \in 1..(k - 1) : j <= Len(b) /\ a[j] = b[j]
        /\ \/ k = Len(a) + 1 /\ Len(b) >= k
           \/ k <= Len(a) /\ k <= Len(b) /\ a[k] < b[k]

RECURSIVE SortedStrings(_)
SortedStrings(S) ==
    IF S = {} THEN <<>>
    ELSE LET m == CHOOSE x \in S : \A y \in S \ {x} : StrLess(x, y)
         IN  <<m>> \o SortedStrings(S \ {m})

\* print_categories: one line per key, sorted
print_categories(c) ==
    LET keys == SortedStrings(DOMAIN c) IN [k \in DOMAIN keys |-> <<keys[k]>>]

----------------------------------------------------------------------------
(* main.py: format_participants *)

ParticipantKey(e) == <<get(e, "position", MAX_POSITION_FALLBACK), get(e, "entryTime", ENTRY_TIME_DEFAULT)>>

ParticipantOrder(s) == sorted([i \in DOMAIN s |-> ParticipantKey(s[i])])

\* the rows joined by "\n"; a row is name TAB className
ParticipantRows(s, ord) ==
    [k \in DOMAIN ord |->
        <<get(s[ord[k]], "name", s_Unknown), get(s[ord[k]], "className", s_unknown)>>]

----------------------------------------------------------------------------
(* Calls of the list functions *)

\* print_rows_in_signup_order(signups, w, sh)
PrintRowsCall(w, sh) ==
    /\ call = "none"
    /\ call' = "print_rows"
    /\ wanted' = w
    /\ shuffle' = sh
    /\ \E ord \in SignupOrders(signups, sh) :
          /\ order' = ord
          /\ stdout' = PrintLoop(signups, ord, w)
    /\ UNCHANGED <<signups, argv_status, formatted, cats, botVars>>

\* format_participants(signups)
FormatCall ==
    /\ call = "none"
    /\ call' = "format"
    /\ order' = ParticipantOrder(signups)
    /\ formatted' = ParticipantRows(signups, order')
    /\ UNCHANGED <<signups, argv_status, wanted, shuffle, stdout, cats, botVars>>

\* collect_categories(signups)
CollectCall ==
    /\ call = "none"
    /\ call' = "collect"
    /\ cats' = collect_categories(signups)
    /\ UNCHANGED <<signups, argv_status, wanted, shuffle, order, stdout, formatted, botVars>>

\* main() of the script, after fetch_json returned the payload, without -c
MainRows(raw, random) ==
    /\ call = "none"
    /\ call' = "main"
    /\ argv_status' = raw
    /\ wanted' = parse_args_status(raw)
    /\ shuffle' = random
    /\ \E ord \in SignupOrders(signups, random) :
          /\ order' = ord
          /\ stdout' = PrintLoop(signups, ord, wanted')
    /\ UNCHANGED <<signups, formatted, cats, botVars>>

\* main() of the script with -c/--categories
MainCategories(raw) ==
    /\ call = "none"
    /\ call' = "main_categories"
    /\ argv_status' = raw
    /\ cats' = collect_categories(signups)
    /\ stdout' = print_categories(cats')
    /\ UNCHANGED <<signups, wanted, shuffle, order, formatted, botVars>>

----------------------------------------------------------------------------
(* main.py: the /raid-list command *)

RATE_LIMIT_SECONDS == 10

\* a faulty variant: the request is let through but its time is not recorded
check_request_no_stamp(map, user, now, ok) ==
    LET last_request    == get(map, user, 0)
        time_since_last == now - last_request
    IN  IF time_since_last < RATE_LIMIT_SECONDS
        THEN [verdict |-> "rate_limited", map |-> map]
        ELSE IF ~ok
        THEN [verdict |-> "invalid_url", map |-> map]
        ELSE [verdict |-> "accepted", map |-> map]

\* a faulty variant: the time is recorded before the URL is validated
check_request_stamp_first(map, user, now, ok) ==
    LET last_request    == get(map, user, 0)
        time_since_last == now - last_request
        stamped         == (user :> now) @@ map
    IN  IF time_since_last < RATE_LIMIT_SECONDS
        THEN [verdict |-> "rate_limited", map |-> map]
        ELSE IF ~ok
        THEN [verdict |-> "invalid_url", map |-> stamped]
        ELSE [verdict |-> "accepted", map |-> stamped]

\* lines 112-130: the rate-limit check, the URL check and the map update;
\* ok is `RAID_HELPER_DOMAIN in url.lower()`
check_request(map, user, now, ok) ==
    LET last_request    == get(map, user, 0)
        time_since_last == now - last_request
    IN  IF time_since_last < RATE_LIMIT_SECONDS
        THEN [verdict |-> "rate_limited", map |-> map]
        ELSE IF ~ok
        THEN [verdict |-> "invalid_url", map |-> map]
        ELSE [verdict |-> "accepted", map |-> (user :> now) @@ map]

\* the exception classes that reach the handler, each with its base class
BaseClass ==
    [ContentTypeError     |-> "ClientResponseError",
     ClientResponseError  |-> "ClientError",
     ClientConnectorError |-> "ClientError",
     ClientError          |-> "Exception",
     TimeoutError         |-> "Exception",
     JSONDecodeError      |-> "Exception",
     AttributeError       |-> "Exception",
     Exception            |-> "Exception"]

RECURSIVE isinstance(_, _)
isinstance(cls, base) ==
    \/ cls = base
    \/ cls # "Exception" /\ isinstance(BaseClass[cls], base)

\* a faulty variant: the handler without its last clause, `except Exception`
except_clauses_without_last(exc) ==
    IF isinstance(exc.cls, "ClientResponseError")
    THEN IF exc.status = 404 THEN "event_not_found"
         ELSE IF exc.status = 403 THEN "access_denied"
         ELSE IF exc.status = 429 THEN "rate_limited_by_server"
         ELSE IF exc.status >= 500 THEN "server_error"
         ELSE "failed_to_fetch"
    ELSE IF isinstance(exc.cls, "ClientError") THEN "network_error"
    ELSE "unhandled"

\* lines 166-188: the message sent for an exception raised in the try block,
\* "unhandled" when no clause matches
except_clauses(exc) ==
    IF isinstance(exc.cls, "ClientResponseError")
    THEN IF exc.status = 404 THEN "event_not_found"
         ELSE IF exc.status = 403 THEN "access_denied"
         ELSE IF exc.status = 429 THEN "rate_limited_by_server"
         ELSE IF exc.status >= 500 THEN "server_error"
         ELSE "failed_to_fetch"
    ELSE IF isinstance(exc.cls, "ClientError") THEN "network_error"
    ELSE IF isinstance(exc.cls, "Exception") THEN "unexpected_error"
    ELSE "unhandled"

\* lines 135-160: what the handler sends for the payload fetch_json returned;
\* a payload is [is_dict, signUps (<<>> when the key is missing, else <<list>>),
\* well_formed (every element a dict with comparable keys)]
after_fetch(data) ==
    IF ~data.is_dict THEN [sent |-> "invalid_data_format", raised |-> ""]
    ELSE LET signUps == IF data.signUps = <<>> THEN <<>> ELSE data.signUps[1]
         IN  IF signUps = <<>> THEN [sent |-> "no_participants", raised |-> ""]
             ELSE IF ~data.well_formed THEN [sent |-> "", raised |-> "AttributeError"]
             ELSE [sent |-> "found_participants", raised |-> ""]

\* what fetch_json can do: raise, or return a payload
Raised(cls, status) == [raises |-> TRUE, cls |-> cls, status |-> status]
Returned(is_dict, signUps, well_formed) ==
    [raises |-> FALSE,
     data |-> [is_dict |-> is_dict, signUps |-> signUps, well_formed |-> well_formed]]

FetchResults ==
    {Raised("ClientResponseError", st) : st \in {400, 403, 404, 429, 503}}
    \cup {Raised("ContentTypeError", 200), Raised("ClientConnectorError", 0),
          Raised("TimeoutError", 0), Raised("JSONDecodeError", 0)}
    \cup {Returned(FALSE, <<>>, TRUE), Returned(TRUE, <<>>, TRUE),
          Returned(TRUE, <<<<>>>>, TRUE), Returned(TRUE, <<<<1>>>>, FALSE),
          Returned(TRUE, <<<<1>>>>, TRUE)}

\* the values time.time() is sampled at: the ends of the rate-limit
\* intervals and the second before each
ClockValues == {k * RATE_LIMIT_SECONDS - d : k \in 1..MaxPeriods, d \in {0, 1}}

SomeFetchResults ==
    {Raised("ClientConnectorError", 0), Returned(TRUE, <<<<1>>>>, TRUE)}

\* time.time() moves on
Tick ==
    /\ \E t \in ClockValues : t > clock /\ clock' = t
    /\ UNCHANGED <<last_request_time, pc, user_id, url_ok, current_time,
                   followups, fetches, escaped, listVars>>

\* lines 102-108: the command is invoked and suspends in response.defer()
Invoke(i, user, ok) ==
    /\ pc[i] = "idle"
    /\ \A j \in Invocations : j < i => pc[j] # "idle"
    /\ pc' = [pc EXCEPT ![i] = "defer"]
    /\ user_id' = [user_id EXCEPT ![i] = user]
    /\ url_ok' = [url_ok EXCEPT ![i] = ok]
    /\ UNCHANGED <<clock, last_request_time, current_time, followups, fetches,
                   escaped, listVars>>

\* lines 112-133: from the return of defer() to the next await, which is a
\* followup.send (rejected) or the session.get of fetch_json (accepted)
CheckRequest(i) ==
    /\ pc[i] = "defer"
    /\ current_time' = [current_time EXCEPT ![i] = clock]
    /\ LET r == check_request(last_request_time, user_id[i], clock, url_ok[i])
       IN  /\ last_request_time' = r.map
           /\ IF r.verdict = "accepted"
              THEN /\ fetches' = [fetches EXCEPT ![i] = @ + 1]
                   /\ pc' = [pc EXCEPT ![i] = "fetch"]
                   /\ UNCHANGED followups
              ELSE /\ followups' = [followups EXCEPT ![i] = Append(@, r.verdict)]
                   /\ pc' = [pc EXCEPT ![i] = "send"]
                   /\ UNCHANGED fetches
    /\ UNCHANGED <<clock, user_id, url_ok, escaped, listVars>>

\* lines 133-188: fetch_json ends; the handler runs to its followup.send, or
\* an exception that no clause catches leaves it
FetchEnds(i, result) ==
    /\ pc[i] = "fetch"
    /\ LET after  == IF result.raises THEN [sent |-> "", raised |-> result.cls]
                     ELSE after_fetch(result.data)
           status == IF result.raises THEN result.status ELSE 0
           msg    == IF after.raised = "" THEN after.sent
                     ELSE except_clauses([cls |-> after.raised, status |-> status])
       IN  IF msg = "unhandled"
           THEN /\ escaped' = [escaped EXCEPT ![i] = TRUE]
                /\ pc' = [pc EXCEPT ![i] = "done"]
                /\ UNCHANGED followups
           ELSE /\ followups' = [followups EXCEPT ![i] = Append(@, msg)]
                /\ pc' = [pc EXCEPT ![i] = "send"]
                /\ UNCHANGED escaped
    /\ UNCHANGED <<clock, last_request_time, user_id, url_ok, current_time,
                   fetches, listVars>>

\* the awaited followup.send returns and the handler ends
SendEnds(i) ==
    /\ pc[i] = "send"
    /\ pc' = [pc EXCEPT ![i] = "done"]
    /\ UNCHANGED <<clock, last_request_time, user_id, url_ok, current_time,
                   followups, fetches, escaped, listVars>>

HandlerStep(i) ==
    \/ CheckRequest(i)
    \/ \E result \in FetchResults : FetchEnds(i, result)
    \/ SendEnds(i)

----------------------------------------------------------------------------
(* Inputs *)

BigPosition == MAX_POSITION_FALLBACK + 1

\* records that differ in their sort key
OrderRecords ==
    {SignupRecord(n, c, p, t) :
        n \in {<<s_a>>, <<s_b>>}, c \in {<<s_Tank>>, <<s_heal>>},
        p \in {<<>>, <<1>>, <<BigPosition>>}, t \in {<<>>, <<1>>}}

\* records that differ in name and status, present or missing; the records
\* named "b" carry position 1, so that sorting moves them to the front
CliRecords ==
    {SignupRecord(n, c, IF n = <<s_b>> THEN <<1>> ELSE <<>>, <<>>) :
        n \in {<<>>, <<s_a>>, <<s_b>>}, c \in {<<>>, <<s_Tank>>, <<s_tank>>}}

\* values of the argument `wanted`: None, [], and lists of words
OrderWanted == {<<>>, <<<<s_tank>>>>}
CliWanted   == {<<>>, <<<<>>>>, <<<<s_tank>>>>, <<<<s_Tank>>>>, <<<<s_heal, s_TANK>>>>}

\* what -s/--status can be on the command line: absent, or one or more words
ArgvStatus  == {<<>>, <<<<s_tank>>>>, <<<<s_Tank>>>>, <<<<s_heal, s_TANK>>>>}

BotIdle ==
    /\ last_request_time = <<>>
    /\ pc = [i \in Invocations |-> "idle"]
    /\ user_id = [i \in Invocations |-> 0]
    /\ url_ok = [i \in Invocations |-> FALSE]
    /\ current_time = [i \in Invocations |-> 0]
    /\ followups = [i \in Invocations |-> <<>>]
    /\ fetches = [i \in Invocations |-> 0]
    /\ escaped = [i \in Invocations |-> FALSE]

ListIdle ==
    /\ call = "none"
    /\ argv_status = <<>>
    /\ wanted = <<>>
    /\ shuffle = FALSE
    /\ order = <<>>
    /\ stdout = <<>>
    /\ formatted = <<>>
    /\ cats = <<>>

InitOrder == signups \in ListsUpTo(OrderRecords, MaxLen) /\ ListIdle /\ BotIdle /\ clock = 0
NextOrder ==
    \/ \E w \in OrderWanted : PrintRowsCall(w, FALSE)
    \/ FormatCall
SpecOrder == InitOrder /\ [][NextOrder]_vars

InitCli == signups \in ListsUpTo(CliRecords, MaxLen) /\ ListIdle /\ BotIdle /\ clock = 0
NextCli ==
    \/ \E w \in CliWanted, sh \in BOOLEAN : PrintRowsCall(w, sh)
    \/ \E raw \in ArgvStatus, r \in BOOLEAN : MainRows(raw, r)
    \/ \E raw \in ArgvStatus : MainCategories(raw)
    \/ FormatCall
    \/ CollectCall
SpecCli == InitCli /\ [][NextCli]_vars

\* concurrent invocations while the clock moves on
InitBot ==
    /\ signups = <<>> /\ ListIdle /\ BotIdle
    /\ clock = RATE_LIMIT_SECONDS - 1
NextBot ==
    \/ Tick
    \/ \E i \in Invocations, user \in Users, ok \in BOOLEAN : Invoke(i, user, ok)
    \/ \E i \in Invocations : CheckRequest(i)
    \/ \E i \in Invocations, result \in SomeFetchResults : FetchEnds(i, result)
    \/ \E i \in Invocations : SendEnds(i)
SpecBot == InitBot /\ [][NextBot]_vars

\* concurrent invocations at one moment, with every result of the fetch
InitHandler ==
    /\ signups = <<>> /\ ListIdle /\ BotIdle
    /\ clock \in ClockValues
NextHandler ==
    \/ \E i \in Invocations, user \in Users, ok \in BOOLEAN : Invoke(i, user, ok)
    \/ \E i \in Invocations : CheckRequest(i)
    \/ \E i \in Invocations, result \in FetchResults : FetchEnds(i, result)
    \/ \E i \in Invocations : SendEnds(i)
SpecHandler == InitHandler /\ [][NextHandler]_vars

----------------------------------------------------------------------------
(* Properties of the list functions *)

HasPosition(e) == "position" \in DOMAIN e
PositionOf(e)  == e["position"]
EntryTimeOf(e) == IF "entryTime" \in DOMAIN e THEN e["entryTime"] ELSE 0
StatusOf(e)    == IF "className" \in DOMAIN e THEN lower(e["className"]) ELSE <<>>
NameOf(e)      == IF "name" \in DOMAIN e THEN e["name"] ELSE <<>>

Count(seq, x)    == Cardinality({k \in DOMAIN seq : seq[k] = x})
SameBag(a, b)    == /\ Len(a) = Len(b)
                    /\ \A k \in DOMAIN a : Count(a, a[k]) = Count(b, a[k])
IsPermutation(o, n) == Len(o) = n /\ {o[k] : k \in DOMAIN o} = 1..n

SignupSequenceCall == call \in {"print_rows", "format", "main"} /\ ~shuffle

\* C1: in signup-sequence ordering a record that has a position comes before
\* every record that has none, whatever the position's value.
C1_MissingPositionLast ==
    SignupSequenceCall =>
        \A i, j \in DOMAIN order :
            (HasPosition(signups[order[i]]) /\ ~HasPosition(signups[order[j]])) => i < j

\* C2: signup-sequence ordering rearranges the input so that, of two records
\* that both have a position, the one with the smaller position comes first,
\* equal positions are ordered by entryTime (0 when missing), and records
\* equal in both keep their input order; records that all lack a position
\* are ordered by entryTime alone, ties in input order.
C2_StableKeyOrder ==
    SignupSequenceCall =>
        /\ IsPermutation(order, Len(signups))
        /\ \A i, j \in DOMAIN order :
              LET A == signups[order[i]]
                  B == signups[order[j]]
                  ByTime == \/ EntryTimeOf(A) < EntryTimeOf(B)
                            \/ EntryTimeOf(A) = EntryTimeOf(B) /\ order[i] < order[j]
              IN  /\ (i < j /\ HasPosition(A) /\ HasPosition(B)) =>
                        \/ PositionOf(A) < PositionOf(B)
                        \/ PositionOf(A) = PositionOf(B) /\ ByTime
                  /\ (i < j /\ ~HasPosition(A) /\ ~HasPosition(B)) => ByTime

C2_Witness ==
    /\ call = "print_rows"
    /\ \E i, j \in DOMAIN order :
          /\ i < j /\ order[i] > order[j]
          /\ HasPosition(signups[order[i]]) /\ HasPosition(signups[order[j]])
          /\ PositionOf(signups[order[i]]) = PositionOf(signups[order[j]])
          /\ "entryTime" \notin DOMAIN signups[order[i]]
    /\ \E i, j \in DOMAIN order :
          /\ i < j
          /\ HasPosition(signups[order[i]]) /\ HasPosition(signups[order[j]])
          /\ PositionOf(signups[order[i]]) < PositionOf(signups[order[j]])

\* a record passes the filter w, status compared as the filter words are written
Passes(w, e) == w = <<>> \/ w[1] = <<>> \/ \E k \in DOMAIN w[1] : w[1][k] = StatusOf(e)

\* a record passes the filter w, both sides compared ignoring case
PassesIgnoringCase(w, e) ==
    w = <<>> \/ w[1] = <<>> \/ \E k \in DOMAIN w[1] : lower(w[1][k]) = StatusOf(e)

RowOf(e) == <<NameOf(e), StatusOf(e)>>

\* drop the unwanted records, then sort the survivors
FilterThenSort(s, w) ==
    LET PassesW(e) == Passes(w, e)
        kept == SelectSeq(s, PassesW)
        ord  == sorted([i \in DOMAIN kept |-> SignupKey(kept[i])])
    IN  [k \in DOMAIN ord |-> RowOf(kept[ord[k]])]

\* C6: without shuffling, the rows print_rows_in_signup_order prints (sort,
\* then drop unwanted rows) are the rows of dropping the unwanted records
\* first and sorting the survivors.
C6_FilterSortCommute ==
    (call \in {"print_rows", "main"} /\ ~shuffle) => stdout = FilterThenSort(signups, wanted)

C6_Witness ==
    /\ call = "print_rows" /\ ~shuffle
    /\ wanted = <<<<s_tank>>>>
    /\ Len(stdout) >= 2 /\ Len(stdout) < Len(signups)
    /\ stdout[1] # stdout[2]
    /\ \E i, j \in DOMAIN order : i < j /\ order[i] > order[j]
    /\ StatusOf(signups[order[1]]) # s_tank

\* C7: with shuffle=True the printed rows are, for every outcome of the
\* shuffle, a rearrangement of the rows printed with shuffle=False.
C7_ShufflePermutesRows ==
    (call \in {"print_rows", "main"} /\ shuffle) =>
        \A plain \in SignupOrders(signups, FALSE) :
            SameBag(stdout, PrintLoop(signups, plain, wanted))

C7_Witness ==
    /\ call = "print_rows" /\ shuffle
    /\ wanted = <<<<s_tank>>>>
    /\ Len(stdout) >= 2 /\ Len(stdout) < Len(signups)
    /\ \E plain \in SignupOrders(signups, FALSE) :
          /\ order # plain
          /\ stdout # PrintLoop(signups, plain, wanted)

RECURSIVE Flatten(_, _)
Flatten(c, keys) ==
    IF keys = <<>> THEN <<>> ELSE c[Head(keys)] \o Flatten(c, Tail(keys))

\* C3: collect_categories puts every record's name in the one bucket keyed
\* by its lower-cased className ("" when missing), in input order; all the
\* buckets together hold the input's names with the same multiplicities.
C3_CategoriesPartition ==
    call = "collect" =>
        LET all == Flatten(cats, SortedStrings(DOMAIN cats))
            names == [i \in DOMAIN signups |-> NameOf(signups[i])]
        IN  /\ DOMAIN cats = {StatusOf(signups[i]) : i \in DOMAIN signups}
            /\ \A st \in DOMAIN cats :
                  LET InBucket(e) == StatusOf(e) = st
                      members == SelectSeq(signups, InBucket)
                  IN  cats[st] = [k \in DOMAIN members |-> NameOf(members[k])]
            /\ SameBag(all, names)

C3_Witness ==
    /\ call = "collect"
    /\ Cardinality(DOMAIN cats) >= 2
    /\ s_empty \in DOMAIN cats
    /\ \E st \in DOMAIN cats :
          /\ Len(cats[st]) >= 2
          /\ \E i, j \in DOMAIN signups :
                /\ i < j
                /\ "className" \in DOMAIN signups[i] /\ "className" \in DOMAIN signups[j]
                /\ signups[i]["className"] # signups[j]["className"]
                /\ StatusOf(signups[i]) = st /\ StatusOf(signups[j]) = st
    /\ \E i \in DOMAIN signups : "name" \notin DOMAIN signups[i]

\* C4: every status label in a row of signup-sequence output is the
\* lower-cased className of the row's record, in the rows printed by
\* print_rows_in_signup_order and in the rows format_participants returns.
C4_LabelsLowerCased ==
    /\ call \in {"print_rows", "main"} =>
          \A k \in DOMAIN stdout : stdout[k][2] = lower(stdout[k][2])
    /\ call = "format" =>
          \A k \in DOMAIN formatted :
              "className" \in DOMAIN signups[order[k]] =>
                  formatted[k][2] = lower(signups[order[k]]["className"])

\* the rows of the records of the list ord that satisfy Test
RowsWhere(ord, Test(_)) ==
    LET TestAt(i) == Test(signups[i])
        kept == SelectSeq(ord, TestAt)
    IN  [k \in DOMAIN kept |-> RowOf(signups[kept[k]])]

\* C5 (as claimed): print_rows_in_signup_order prints a record's row iff
\* wanted is empty/None or some element of wanted equals the record's
\* className, both compared ignoring case, for every wanted list.
C5_FilterIgnoresCaseEveryWanted ==
    call \in {"print_rows", "main"} =>
        LET Match(e) == PassesIgnoringCase(wanted, e)
        IN  stdout = RowsWhere(order, Match)

AllLowerCase(w) == w = <<>> \/ \A k \in DOMAIN w[1] : w[1][k] = lower(w[1][k])

\* C5 (amended): the record's className is always compared lower-cased; the
\* words of wanted are compared as written.  So filtering ignores case on
\* both sides for every wanted list whose words are lower-case, and for the
\* words typed after -s/--status, which parse_args lower-cases.
C5_FilterIgnoresCaseFromCommandLine ==
    /\ (call \in {"print_rows", "main"} /\ AllLowerCase(wanted)) =>
          LET Match(e) == PassesIgnoringCase(wanted, e)
          IN  stdout = RowsWhere(order, Match)
    /\ call = "main" =>
          LET Match(e) == PassesIgnoringCase(argv_status, e)
          IN  stdout = RowsWhere(order, Match)

C5_Witness ==
    /\ call = "main"
    /\ argv_status = <<<<s_heal, s_TANK>>>>
    /\ Len(stdout) >= 2 /\ Len(stdout) < Len(signups)
    /\ \E i, j \in DOMAIN signups :
          /\ get(signups[i], "className", s_empty) = s_Tank
          /\ get(signups[j], "className", s_empty) = s_tank

----------------------------------------------------------------------------
(* Properties of the /raid-list command *)

\* C8: every invocation of raid_list, on every path (rate-limited, invalid
\* URL, HTTP error, network error, non-dict payload, empty signUps, any
\* other exception of the fetch or the formatting, success), sends exactly
\* one follow-up message after the defer and fetches the URL at most once;
\* no exception leaves the handler, and a handler that has not ended can
\* always take its next step.
C8_OneFollowupOneFetch ==
    \A i \in Invocations :
        /\ Len(followups[i]) <= 1
        /\ fetches[i] <= 1
        /\ ~escaped[i]
        /\ pc[i] \in {"send", "done"} => Len(followups[i]) = 1
        /\ pc[i] \in {"defer", "fetch", "send"} => ENABLED HandlerStep(i)

C8_Witness ==
    \E i, j \in Invocations :
        /\ pc[i] = "done" /\ pc[j] = "done"
        /\ followups[i] = <<"rate_limited">> /\ fetches[i] = 0
        /\ followups[j] = <<"unexpected_error">> /\ fetches[j] = 1

Accepted(i) == fetches[i] >= 1

C9_Apart ==
    \A i, j \in Invocations :
        (i # j /\ Accepted(i) /\ Accepted(j) /\ user_id[i] = user_id[j]) =>
            \/ current_time[i] - current_time[j] >= RATE_LIMIT_SECONDS
            \/ current_time[j] - current_time[i] >= RATE_LIMIT_SECONDS

\* the step in which invocation i makes its checks is not a rejection for
\* rate limiting, if no other request of its user has made its checks yet
\* and the clock is at least RATE_LIMIT_SECONDS
C9_FirstRequest ==
    \A i \in Invocations :
        ( /\ pc[i] = "defer" /\ pc'[i] # "defer"
          /\ clock >= RATE_LIMIT_SECONDS
          /\ \A j \in Invocations \ {i} :
                user_id[j] = user_id[i] => pc[j] \in {"idle", "defer"} )
        => followups'[i] # <<"rate_limited">>

\* C9: under every interleaving of the handlers, two invocations of one user
\* that both reach the fetch sampled clock values at least RATE_LIMIT_SECONDS
\* apart (the clock never decreases); and a user's first request is not
\* rate-limited when the clock is at least RATE_LIMIT_SECONDS.
C9_RateLimit == []C9_Apart /\ [][C9_FirstRequest]_vars

C9_Witness ==
    \E i, j \in Invocations :
        /\ i # j /\ user_id[i] = user_id[j]
        /\ Accepted(i) /\ Accepted(j)
        /\ current_time[j] - current_time[i] = RATE_LIMIT_SECONDS
        /\ pc[i] = "fetch" /\ pc[j] = "fetch"

EntryOrZero(u) == IF u \in DOMAIN last_request_time THEN last_request_time[u] ELSE 0

C10_Frame ==
    /\ last_request_time' # last_request_time =>
          \E i \in Invocations :
              LET u == user_id[i]
              IN  /\ pc[i] = "defer" /\ pc'[i] = "fetch"
                  /\ url_ok[i]
                  /\ clock - EntryOrZero(u) >= RATE_LIMIT_SECONDS
                  /\ DOMAIN last_request_time' = DOMAIN last_request_time \cup {u}
                  /\ last_request_time'[u] = current_time'[i]
                  /\ current_time'[i] = clock
                  /\ \A v \in DOMAIN last_request_time \ {u} :
                        last_request_time'[v] = last_request_time[v]
    /\ \A i \in Invocations :
          /\ (pc[i] = "defer" /\ pc'[i] = "fetch") =>
                /\ user_id[i] \in DOMAIN last_request_time'
                /\ last_request_time'[user_id[i]] = clock
          /\ (pc[i] = "defer" /\ pc'[i] = "send") =>
                last_request_time' = last_request_time
          /\ (pc[i] = "fetch" /\ pc'[i] # "fetch") =>
                last_request_time' = last_request_time

\* C10: last_request_time changes only in the step in which a request passes
\* the rate-limit check and the URL check; that step sets the requesting
\* user's entry to the request's sampled time, before the fetch starts, and
\* changes no other entry; a rejected request and the end of a fetch,
\* failed or not, leave the map as it is.
C10_MapChangesOnlyOnAccept == [][C10_Frame]_vars

C10_Witness ==
    \E i, j \in Invocations :
        /\ followups[i] = <<"network_error">>
        /\ user_id[i] \in DOMAIN last_request_time
        /\ last_request_time[user_id[i]] = current_time[i]
        /\ followups[j] = <<"invalid_url">>
        /\ current_time[j] >= RATE_LIMIT_SECONDS
        /\ user_id[j] \notin DOMAIN last_request_time

====
